---------------------------- MODULE Spec2Model ----------------------------
(***************************************************************************)
(* A model of uta-net.py (class LyricsTagger): the fuzzy matcher           *)
(* find_best_match, the search-term generator extract_search_terms, the    *)
(* two resolution loops search_artist_url and get_lyrics_by_title_search,  *)
(* and the batch driver process_audio_files.                               *)
(*                                                                         *)
(* A Python str is a sequence of characters; a character is a TLA+ string  *)
(* holding either the ASCII character itself or, for a non-ASCII           *)
(* character, its code point ("U+591C").  A float ratio is the exact       *)
(* fraction <<num, den>> with den > 0: difflib computes 2.0*M/T, one       *)
(* correctly rounded division, so comparing two such ratios, or one with   *)
(* the literals 0.3 and 0.8, agrees with comparing the fractions.          *)
(***************************************************************************)
EXTENDS Integers, Sequences, FiniteSets, TLC

VARIABLES
    \* find_best_match, called on its own (SpecMatch)
    search_term, candidates, threshold, match_pc, match_result,
    \* extract_search_terms, called on its own (SpecTerms)
    text, max_terms, terms_pc, terms_result,
    \* search_artist_url and get_lyrics_by_title_search (SpecResolve)
    flow,            \* "artist": search_artist_url, "title": get_lyrics_by_title_search
    title,           \* the title tag of the file (title flow); None when it has none
    artist,          \* artist_name (artist flow), the artist tag (title flow)
    search_terms,    \* the terms of extract_search_terms
    term_i,          \* the position of the for loop: the next term to try
    best_match,      \* the entry matched so far, None before
    highest_ratio,
    last_match,      \* artist flow: the local match_result
    res_pc,          \* "start", "loop", "after_loop", "returned", "raised"
    result,          \* the value returned
    queries,         \* the terms sent to the catalogue search, in order
    outcomes,        \* what each of these requests met
    seen,            \* every entry the catalogue search has returned
    confident_at,    \* the number of queries sent when a result first scored >= 0.3
    confident_entry, \* artist flow: the display label matched by that result
    \* process_audio_files (SpecBatch)
    audio_files,          \* self.audio_files: the files, by their tags and extension
    per_file_search,      \* self.per_file_search
    search_by_title_pass, \* the argument of process_audio_files
    song_entries,         \* self.song_entries: "empty" or "collected"
    batch_pc,             \* "first_pass", "title_pass", "summary", "exception", "exited"
    file_i,               \* the position of the running loop
    failed_files,         \* the list of (filename, reason); a filename is its index
    still_failed,
    met,                  \* per file, the condition its first pass met
    written,              \* the files write_lyrics_to_file was called on
    tagged_files,         \* the files whose tag holds the lyrics
    passed,               \* the files whose iteration of the first loop is over
    first_failed,         \* the files the first loop gave a failure record
    title_tried,          \* the files get_lyrics_by_title_search was called on, in order
    title_ok,             \* the files it returned (True, "Success") for
    \* the similarity score (SpecSimilarity)
    sim_a, sim_b,         \* the two strings
    sim_pc,               \* "call" before the scores are computed, then "returned"
    sim_ab, sim_ba        \* the score of (sim_a, sim_b) and of (sim_b, sim_a)

matchVars == <<search_term, candidates, threshold, match_pc, match_result>>
termsVars == <<text, max_terms, terms_pc, terms_result>>
resolveVars == <<flow, title, artist, search_terms, term_i, best_match,
                 highest_ratio, last_match, res_pc, result, queries, outcomes,
                 seen, confident_at, confident_entry>>
batchVars == <<audio_files, per_file_search, search_by_title_pass, song_entries,
               batch_pc, file_i, failed_files, still_failed, met, written,
               tagged_files, passed, first_failed, title_tried, title_ok>>
simVars == <<sim_a, sim_b, sim_pc, sim_ab, sim_ba>>
vars == <<matchVars, termsVars, resolveVars, batchVars, simVars>>

-----------------------------------------------------------------------------
(* Bounds of the model *)

\* longest query / candidate string given to find_best_match in SpecMatch
MaxLen == 2
\* longest candidate list given to find_best_match in SpecMatch
MaxCands == 2
\* longest raw label given to extract_search_terms in SpecTerms
MaxLabelLen == 4
\* largest max_terms given to extract_search_terms in SpecTerms
MaxTermsArg == 5
\* most rows on one page of catalogue search results in SpecResolve
MaxEntries == 2
\* most audio files in the directory in SpecBatch
MaxFiles == 2
\* longest string given to the similarity score in SpecSimilarity
MaxSimLen == 4

-----------------------------------------------------------------------------
(* Sequences and fractions *)

\* F(v), with v evaluated once
With(v, F(_)) == CHOOSE r \in {F(x) : x \in {v}} : TRUE

Min(S) == CHOOSE x \in S : \A y \in S : x <= y
Max(S) == CHOOSE x \in S : \A y \in S : x >= y

\* all sequences over S of length 0..n
SeqsUpTo(S, n) == UNION {[1..k -> S] : k \in 0..n}

\* s[lo..hi-1] as a sequence (a Python slice s[lo-1:hi-1], 1-based here)
Slice(s, lo, hi) == [k \in 1..(hi - lo) |-> s[lo + k - 1]]

\* Python's `needle in haystack` for str
IsSubstring(needle, haystack) ==
    \E lo \in 1..(Len(haystack) + 1) :
        /\ lo + Len(needle) <= Len(haystack) + 1
        /\ Slice(haystack, lo, lo + Len(needle)) = needle

Frac(n, d) == <<n, d>>
FracGt(x, y) == x[1] * y[2] > y[1] * x[2]
FracGe(x, y) == x[1] * y[2] >= y[1] * x[2]
FracLt(x, y) == x[1] * y[2] < y[1] * x[2]
FracEq(x, y) == x[1] * y[2] = y[1] * x[2]

-----------------------------------------------------------------------------
(* difflib.SequenceMatcher(None, a, b).ratio()                             *)
(* isjunk is None, and autojunk only discards popular elements of b when   *)
(* len(b) >= 200, which no string of the model reaches.                    *)

RECURSIVE CommonRun(_, _, _, _, _, _)
\* length of the run a[i..] = b[j..] that stays inside [i, ahi) x [j, bhi)
CommonRun(a, b, i, j, ahi, bhi) ==
    IF i < ahi /\ j < bhi /\ a[i] = b[j]
    THEN 1 + CommonRun(a, b, i + 1, j + 1, ahi, bhi)
    ELSE 0

\* The longest block a[i..i+k) = b[j..j+k) inside a[alo..ahi) x b[blo..bhi):
\* of the longest ones the one starting earliest in a, and of those the one
\* starting earliest in b (bestsize only grows on a strictly longer block).
find_longest_match(a, b, alo, ahi, blo, bhi) ==
    LET pairs == (alo..(ahi - 1)) \X (blo..(bhi - 1))
        size(p) == CommonRun(a, b, p[1], p[2], ahi, bhi)
    IN  With(IF pairs = {} THEN 0 ELSE Max({size(p) : p \in pairs}),
             LAMBDA bestsize :
                IF bestsize = 0
                THEN [i |-> alo, j |-> blo, size |-> 0]
                ELSE With(Min({p[1] : p \in {q \in pairs : size(q) = bestsize}}),
                          LAMBDA besti :
                             [i |-> besti,
                              j |-> Min({p[2] : p \in {q \in pairs :
                                           q[1] = besti /\ size(q) = bestsize}}),
                              size |-> bestsize]))

RECURSIVE get_matching_blocks(_, _, _, _, _, _)
\* total size of the matching blocks of a[alo..ahi) and b[blo..bhi): the
\* longest block, then the same to its left and to its right
get_matching_blocks(a, b, alo, ahi, blo, bhi) ==
    With(find_longest_match(a, b, alo, ahi, blo, bhi),
         LAMBDA m :
            IF m.size = 0
            THEN 0
            ELSE m.size
                 + (IF alo < m.i /\ blo < m.j
                    THEN get_matching_blocks(a, b, alo, m.i, blo, m.j)
                    ELSE 0)
                 + (IF m.i + m.size < ahi /\ m.j + m.size < bhi
                    THEN get_matching_blocks(a, b, m.i + m.size, ahi,
                                             m.j + m.size, bhi)
                    ELSE 0))

\* ratio(): 2.0 * matches / (len(a) + len(b)), and 1.0 when both are empty
Ratio(a, b) ==
    LET matches == get_matching_blocks(a, b, 1, Len(a) + 1, 1, Len(b) + 1)
        length == Len(a) + Len(b)
    IN  IF length # 0 THEN Frac(2 * matches, length) ELSE Frac(1, 1)

-----------------------------------------------------------------------------
(* Optional[str]: None, or a string.  Python's truth value of it is False  *)
(* for None and for the empty string.                                      *)

None == [some |-> FALSE, val |-> <<>>]
Some(s) == [some |-> TRUE, val |-> s]
Truthy(o) == o.some /\ o.val # <<>>

-----------------------------------------------------------------------------
(* find_best_match(search_term, candidates, threshold)                     *)

\* the locals before the loop
FbmInit == [best_match |-> None, highest_ratio |-> Frac(0, 1),
            substring_match |-> None]

\* `ratio > highest_ratio and ratio >= threshold`, without the threshold
FbmAcceptsNoThreshold(ratio, highest, thr) == FracGt(ratio, highest)

\* `ratio > highest_ratio and ratio >= threshold`
FbmAccepts(ratio, highest, thr) == FracGt(ratio, highest) /\ FracGe(ratio, thr)

\* one iteration of `for candidate in candidates`
FbmStep(st, query, candidate, thr) ==
    With(With(Ratio(query, candidate),
              LAMBDA ratio :
                 IF FbmAccepts(ratio, st.highest_ratio, thr)
                 THEN [st EXCEPT !.highest_ratio = ratio,
                                 !.best_match = Some(candidate)]
                 ELSE st),
         LAMBDA st1 :
            IF ~Truthy(st1.best_match) /\ IsSubstring(candidate, query)
            THEN IF \/ ~Truthy(st1.substring_match)
                    \/ Len(candidate) > Len(st1.substring_match.val)
                 THEN [st1 EXCEPT !.substring_match = Some(candidate)]
                 ELSE st1
            ELSE st1)

RECURSIVE FbmLoop(_, _, _, _, _)
\* the loop from candidate k on
FbmLoop(st, query, cands, thr, k) ==
    IF k > Len(cands)
    THEN st
    ELSE With(FbmStep(st, query, cands[k], thr),
              LAMBDA st1 : FbmLoop(st1, query, cands, thr, k + 1))

\* Optional[tuple[str, float]]; `via` is the return statement taken
NoMatch == [found |-> FALSE, match |-> <<>>, ratio |-> Frac(0, 1), via |-> "none"]

find_best_match(query, cands, thr) ==
    With(FbmLoop(FbmInit, query, cands, thr, 1),
         LAMBDA st :
            IF ~Truthy(st.best_match) /\ Truthy(st.substring_match)
            THEN [found |-> TRUE, match |-> st.substring_match.val,
                  ratio |-> Ratio(query, st.substring_match.val),
                  via |-> "substring"]
            ELSE IF Truthy(st.best_match)
            THEN [found |-> TRUE, match |-> st.best_match.val,
                  ratio |-> st.highest_ratio, via |-> "ratio"]
            ELSE NoMatch)

-----------------------------------------------------------------------------
(* SpecMatch: find_best_match on every query, candidate list and threshold *)
(* of the bounds.                                                          *)

MatchAlphabet == {"a", "b"}
MatchStrings == SeqsUpTo(MatchAlphabet, MaxLen)
\* 0, the 0.3 of search_artist_url and the default 0.8
Thresholds == {Frac(0, 1), Frac(3, 10), Frac(8, 10)}

\* a catalogue entry: (display label, url, auxiliary field)
NoEntry == [name |-> <<>>, url |-> "", aux |-> <<>>]
\* Optional[entry]
NoBest == [some |-> FALSE, val |-> NoEntry]
\* the value returned by a resolution: kind is "none" for None, "artist" for
\* the tuple search_artist_url returns, and for get_lyrics_by_title_search
\* "no_confident", "no_lyrics" and "success" for its (bool, reason) tuples
NoResult == [kind |-> "none", entry |-> NoEntry, tagged |-> FALSE]

ResolveIdle ==
    /\ flow = "idle"
    /\ title = None
    /\ artist = <<>>
    /\ search_terms = <<>>
    /\ term_i = 0
    /\ best_match = NoBest
    /\ highest_ratio = Frac(0, 1)
    /\ last_match = NoMatch
    /\ res_pc = "idle"
    /\ result = NoResult
    /\ queries = <<>>
    /\ outcomes = <<>>
    /\ seen = {}
    /\ confident_at = 0
    /\ confident_entry = <<>>

SimIdle ==
    /\ sim_a = <<>>
    /\ sim_b = <<>>
    /\ sim_pc = "idle"
    /\ sim_ab = Frac(0, 1)
    /\ sim_ba = Frac(0, 1)

BatchIdle ==
    /\ audio_files = <<>>
    /\ per_file_search = FALSE
    /\ search_by_title_pass = FALSE
    /\ song_entries = "empty"
    /\ batch_pc = "idle"
    /\ file_i = 0
    /\ failed_files = <<>>
    /\ still_failed = <<>>
    /\ met = <<>>
    /\ written = {}
    /\ tagged_files = {}
    /\ passed = {}
    /\ first_failed = {}
    /\ title_tried = <<>>
    /\ title_ok = {}

MatchIdle ==
    /\ search_term = <<>>
    /\ candidates = <<>>
    /\ threshold = Frac(0, 1)
    /\ match_pc = "idle"
    /\ match_result = NoMatch

TermsIdle ==
    /\ text = <<>>
    /\ max_terms = 0
    /\ terms_pc = "idle"
    /\ terms_result = <<>>

MatchInit ==
    /\ search_term \in MatchStrings
    /\ candidates \in SeqsUpTo(MatchStrings, MaxCands)
    /\ threshold \in Thresholds
    /\ match_pc = "call"
    /\ match_result = NoMatch
    /\ TermsIdle
    /\ ResolveIdle
    /\ BatchIdle
    /\ SimIdle

FindBestMatchCall ==
    /\ match_pc = "call"
    /\ match_result' = find_best_match(search_term, candidates, threshold)
    /\ match_pc' = "returned"
    /\ UNCHANGED <<search_term, candidates, threshold, termsVars, resolveVars, batchVars, simVars>>

MatchNext == FindBestMatchCall

SpecMatch == MatchInit /\ [][MatchNext]_vars

(* C1: when find_best_match returns a score below the threshold, the       *)
(* returned candidate is a literal substring of the query and came from    *)
(* the substring fallback; a result returned on the similarity basis has   *)
(* a score >= threshold.                                                   *)
C1_BelowThresholdOnlyBySubstring ==
    (match_pc = "returned" /\ match_result.found) =>
        /\ FracLt(match_result.ratio, threshold) =>
              /\ match_result.via = "substring"
              /\ IsSubstring(match_result.match, search_term)
        /\ match_result.via = "ratio" => FracGe(match_result.ratio, threshold)

\* a substring fallback was returned with a score below the threshold
C1_Witness ==
    /\ match_pc = "returned"
    /\ match_result.found
    /\ FracLt(match_result.ratio, threshold)
    /\ \E k \in 1..Len(candidates) : ~IsSubstring(candidates[k], search_term)

\* the candidates whose similarity to the query reaches the threshold
Reaching(query, cands, thr) ==
    {k \in 1..Len(cands) : FracGe(Ratio(query, cands[k]), thr)}

\* the first candidate of maximum similarity
FirstBest(query, cands) ==
    Min({k \in 1..Len(cands) :
            \A j \in 1..Len(cands) :
                FracGe(Ratio(query, cands[k]), Ratio(query, cands[j]))})

(* C2: whenever some candidate's similarity reaches the threshold (empty   *)
(* strings and threshold 0 included), find_best_match returns the first    *)
(* candidate of maximum similarity with that similarity, on the            *)
(* similarity basis.                                                       *)
C2_BestReachingCandidateReturned ==
    (match_pc = "returned" /\ Reaching(search_term, candidates, threshold) # {}) =>
        LET k == FirstBest(search_term, candidates)
        IN  /\ match_result.found
            /\ match_result.via = "ratio"
            /\ match_result.match = candidates[k]
            /\ match_result.ratio = Ratio(search_term, candidates[k])

\* the candidates that are literal substrings of the query
Substrings(query, cands) ==
    {k \in 1..Len(cands) : IsSubstring(cands[k], query)}

\* the first of the longest substring candidates
FirstLongest(query, cands) ==
    Min({k \in Substrings(query, cands) :
            \A j \in Substrings(query, cands) : Len(cands[k]) >= Len(cands[j])})

(* C3: when no candidate reaches the threshold, find_best_match returns    *)
(* the longest substring candidate (the first of equal lengths) with its   *)
(* recomputed similarity if there is one, and no match otherwise.          *)
C3_LongestSubstringReturned ==
    (match_pc = "returned" /\ Reaching(search_term, candidates, threshold) = {}) =>
        IF Substrings(search_term, candidates) # {}
        THEN LET k == FirstLongest(search_term, candidates)
             IN  /\ match_result.found
                 /\ match_result.match = candidates[k]
                 /\ match_result.ratio = Ratio(search_term, candidates[k])
        ELSE ~match_result.found

-----------------------------------------------------------------------------
(* Characters.  unicodedata.category and the NFKC and lower-case mappings  *)
(* on the characters of the model; NFKC maps each of them to one           *)
(* character.                                                              *)

\* U+591C and U+99C6 are CJK ideographs, U+266A is a music note (So),
\* U+FF21 is the fullwidth capital A
Category(c) ==
    CASE c \in {"a", "b"} -> "Ll"
      [] c \in {"A", "U+FF21"} -> "Lu"
      [] c = " " -> "Zs"
      [] c \in {"U+591C", "U+99C6"} -> "Lo"
      [] c = "U+266A" -> "So"
      [] c = "+" -> "Sm"
      [] c \in {"!", "."} -> "Po"

NFKC(c) == IF c = "U+FF21" THEN "A" ELSE c
Lower(c) == IF c = "A" THEN "a" ELSE c
IsSpace(c) == c = " "
\* the range [一-鿿]
IsKanji(c) == c \in {"U+591C", "U+99C6"}
\* the punctuation normalize_text keeps
KeptPunctuation == {"'", ".", ":", "(", ")", "U+FF08", "U+FF09"}

\* str.strip()
RECURSIVE LStrip(_)
LStrip(s) == IF s # <<>> /\ IsSpace(Head(s)) THEN LStrip(Tail(s)) ELSE s
RECURSIVE RStrip(_)
RStrip(s) ==
    IF s # <<>> /\ IsSpace(s[Len(s)]) THEN RStrip(SubSeq(s, 1, Len(s) - 1)) ELSE s
Strip(s) == RStrip(LStrip(s))

\* s[:n]
Take(s, n) == SubSeq(s, 1, IF n < Len(s) THEN n ELSE Len(s))

\* a character the loop of normalize_text skips
Dropped(c) ==
    \/ Category(c) \in {"So", "Sm", "Sk", "Sc"}
    \/ /\ Category(c) \in {"Pc", "Pd", "Ps", "Pe", "Pi", "Pf", "Po"}
       /\ c \notin KeptPunctuation

normalize_text(raw) ==
    With(SelectSeq([k \in 1..Len(raw) |-> NFKC(raw[k])], LAMBDA c : ~Dropped(c)),
         LAMBDA cleaned : Strip([k \in 1..Len(cleaned) |-> Lower(cleaned[k])]))

-----------------------------------------------------------------------------
(* extract_search_terms(text, max_terms)                                   *)

RECURSIVE KanjiRuns(_, _)
\* [m.group() for m in re.finditer("[一-鿿]+", s)]: the maximal runs of
\* kanji of s, in order; cur is the run being read
KanjiRuns(s, cur) ==
    IF s = <<>>
    THEN IF cur = <<>> THEN <<>> ELSE <<cur>>
    ELSE IF IsKanji(Head(s))
    THEN KanjiRuns(Tail(s), Append(cur, Head(s)))
    ELSE (IF cur = <<>> THEN <<>> ELSE <<cur>>) \o KanjiRuns(Tail(s), <<>>)

RECURSIVE Split(_, _)
\* str.split(): the maximal runs of non-space characters
Split(s, cur) ==
    IF s = <<>>
    THEN IF cur = <<>> THEN <<>> ELSE <<cur>>
    ELSE IF ~IsSpace(Head(s))
    THEN Split(Tail(s), Append(cur, Head(s)))
    ELSE (IF cur = <<>> THEN <<>> ELSE <<cur>>) \o Split(Tail(s), <<>>)

RECURSIVE Join(_)
\* " ".join(words)
Join(words) ==
    IF words = <<>> THEN <<>>
    ELSE IF Len(words) = 1 THEN words[1]
    ELSE words[1] \o <<" ">> \o Join(Tail(words))

RECURSIVE SortFrom(_, _)
\* the strings of length n, then those of n-1, ..., each in the order of strs
SortFrom(strs, n) ==
    IF n < 0 THEN <<>>
    ELSE SelectSeq(strs, LAMBDA x : Len(x) = n) \o SortFrom(strs, n - 1)

\* sorted(strs, key=len, reverse=True): stable, so equal lengths keep their order
SortByLenDesc(strs) ==
    IF strs = <<>> THEN <<>>
    ELSE SortFrom(strs, Max({Len(strs[k]) : k \in 1..Len(strs)}))

InSeq(x, s) == \E k \in 1..Len(s) : s[k] = x

RECURSIVE WordWindows(_, _, _, _)
\* the double loop over i, j: " ".join(words[i:j]) when not in search_terms
WordWindows(words, terms, i, j) ==
    IF i > Len(words) THEN <<>>
    ELSE IF j > Len(words) THEN WordWindows(words, terms, i + 1, i + 1)
    ELSE LET substring == Join(SubSeq(words, i, j))
         IN  (IF InSeq(substring, terms) THEN <<>> ELSE <<substring>>)
             \o WordWindows(words, terms, i, j + 1)

\* list(dict.fromkeys(search_terms)) without the removal of repeated terms
DictFromKeysKeepsAll(s, keys) == s

RECURSIVE DictFromKeys(_, _)
\* list(dict.fromkeys(s)): the first occurrence of each element, in order
DictFromKeys(s, keys) ==
    IF s = <<>> THEN <<>>
    ELSE IF Head(s) \in keys THEN DictFromKeys(Tail(s), keys)
    ELSE <<Head(s)>> \o DictFromKeys(Tail(s), keys \cup {Head(s)})

\* `return [text.strip()[:10]]`
EmptyNormalizedTerms(raw) == <<Take(Strip(raw), 10)>>

\* search_terms as built before the final `dict.fromkeys`, one entry per step
GeneratedTerms(raw) ==
    With(normalize_text(raw),
         LAMBDA normalized :
            IF normalized = <<>>
            THEN EmptyNormalizedTerms(raw)
            ELSE With(<<raw, normalized>>
                        \o SortByLenDesc(KanjiRuns(normalized, <<>>)),
                      LAMBDA terms :
                         With(Split(normalized, <<>>),
                              LAMBDA words :
                                 terms \o SortByLenDesc(
                                            WordWindows(words, terms, 1, 1)))))

extract_search_terms(raw, maxTerms) ==
    IF normalize_text(raw) = <<>>
    THEN EmptyNormalizedTerms(raw)
    ELSE Take(DictFromKeys(GeneratedTerms(raw), {}), maxTerms)

-----------------------------------------------------------------------------
(* SpecTerms: extract_search_terms on every raw label and max_terms of the *)
(* bounds.                                                                 *)

LabelAlphabet == {"a", "A", " ", "U+591C", "U+266A"}
Labels == SeqsUpTo(LabelAlphabet, MaxLabelLen)

TermsInit ==
    /\ text \in Labels
    /\ max_terms \in 1..MaxTermsArg
    /\ terms_pc = "call"
    /\ terms_result = <<>>
    /\ MatchIdle
    /\ ResolveIdle
    /\ BatchIdle
    /\ SimIdle

ExtractSearchTermsCall ==
    /\ terms_pc = "call"
    /\ terms_result' = extract_search_terms(text, max_terms)
    /\ terms_pc' = "returned"
    /\ UNCHANGED <<text, max_terms, matchVars, resolveVars, batchVars, simVars>>

TermsNext == ExtractSearchTermsCall

SpecTerms == TermsInit /\ [][TermsNext]_vars

(* C10: for every raw label that normalizes to the empty string            *)
(* (whitespace-only and empty labels included), extract_search_terms       *)
(* returns exactly one term and that term is non-empty.                    *)
C10_OneNonEmptyTermWhenNormalizedEmpty ==
    (terms_pc = "returned" /\ normalize_text(text) = <<>>) =>
        /\ Len(terms_result) = 1
        /\ terms_result[1] # <<>>

(* C11: for every raw label and every max_terms >= 1,                      *)
(* extract_search_terms returns at most max_terms terms and no term twice; *)
(* of equal terms generated by different steps only the first occurrence   *)
(* is kept, at its original position: the k-th returned term is the k-th   *)
(* distinct term of the generated list, and terms are only cut off at the  *)
(* end, by max_terms.                                                      *)
C11_AtMostMaxTermsNoDuplicates ==
    terms_pc = "returned" =>
        LET gen == GeneratedTerms(text)
            distinct == {gen[p] : p \in 1..Len(gen)}
        IN  /\ Len(terms_result) <= max_terms
            /\ \A i, j \in 1..Len(terms_result) :
                  i # j => terms_result[i] # terms_result[j]
            /\ Len(terms_result) = Min({max_terms, Cardinality(distinct)})
            /\ \A k \in 1..Len(terms_result) :
                  \E p \in 1..Len(gen) :
                     /\ gen[p] = terms_result[k]
                     /\ \A q \in 1..(p - 1) : gen[q] # gen[p]
                     /\ Cardinality({gen[q] : q \in 1..(p - 1)}) = k - 1

\* a label whose steps generate a term twice, cut off by max_terms
C11_Witness ==
    /\ terms_pc = "returned"
    /\ LET gen == GeneratedTerms(text)
       IN  /\ \E p, q \in 1..Len(gen) : p < q /\ gen[p] = gen[q]
           /\ Cardinality({gen[p] : p \in 1..Len(gen)}) > max_terms
    /\ Len(terms_result) = max_terms
    /\ max_terms > 1

-----------------------------------------------------------------------------
(* The external calls.  A catalogue search is one HTTP exchange (with its  *)
(* further pages): it fails with a requests.RequestException ("error": no  *)
(* connection, or raise_for_status on an error status such as 404), or it  *)
(* yields a page whose rows lack an expected span, on which `.text` of     *)
(* None raises AttributeError ("malformed"), or it yields rows ("page").   *)

HttpError == [kind |-> "error", rows |-> <<>>]
HttpMalformed == [kind |-> "malformed", rows |-> <<>>]
HttpPage(rows) == [kind |-> "page", rows |-> rows]

\* what a call did: raised an exception, or returned value
Raised == [raised |-> TRUE, value |-> None]
Returned(v) == [raised |-> FALSE, value |-> v]

\* get_artist_search_results without its `except requests.RequestException`
get_artist_search_results_uncaught(http) ==
    IF http.kind = "page" THEN Returned(Some(http.rows)) ELSE Raised

\* get_artist_search_results: the rows, None on a RequestException
get_artist_search_results(http) ==
    CASE http.kind = "error" -> Returned(None)
      [] http.kind = "malformed" -> Raised
      [] OTHER -> Returned(Some(http.rows))

\* get_title_search_results without its `except requests.RequestException`
get_title_search_results_uncaught(http) ==
    IF http.kind = "page" THEN Returned(Some(http.rows)) ELSE Raised

\* get_title_search_results: the rows of all pages, None on a RequestException
get_title_search_results(http) ==
    CASE http.kind = "error" -> Returned(None)
      [] http.kind = "malformed" -> Raised
      [] OTHER -> Returned(Some(http.rows))

\* fetch_lyrics: raise_for_status is not caught; "" when the page has no
\* kashi_area div or an empty one
fetch_lyrics(http) ==
    CASE http = "error" -> [raised |-> TRUE, value |-> ""]
      [] http = "no_lyrics" -> [raised |-> FALSE, value |-> ""]
      [] OTHER -> [raised |-> FALSE, value |-> "lyrics"]

\* the extensions with a tag mapping in write_lyrics_to_file
TaggedExtensions == {".mp3", ".flac", ".m4a", ".aac"}
\* audio_extensions of get_audio_files
AudioExtensions == {".mp3", ".flac", ".m4a", ".ogg", ".aac"}

\* write_lyrics_to_file: every outcome is printed and None is returned; an
\* exception of the tag library is caught inside.  tagged: the lyrics are in
\* the file's tag afterwards.
write_lyrics_to_file(ext, io_fails) ==
    [raised |-> FALSE, tagged |-> ext \in TaggedExtensions /\ ~io_fails]

-----------------------------------------------------------------------------
(* search_artist_url(artist_name)                                          *)

\* max_terms: int = 5
DefaultMaxTerms == 5

\* `for search_term in search_terms`: where the loop is after term i of n
NextTerm(i, n) == IF i < n THEN "loop" ELSE "after_loop"

\* entry_mapping[name]: a later row of the same name replaces an earlier one
EntryMapping(entries, name) ==
    entries[Max({k \in 1..Len(entries) : entries[k].name = name})]

\* the loop of search_artist_url never breaks
ArtistConfidentNever(highest) == FALSE

\* the loop of search_artist_url breaks after the first page with rows
ArtistConfidentAlways(highest) == TRUE

\* `if highest_ratio >= 0.3: break`
ArtistConfident(highest) == FracGe(highest, Frac(3, 10))

\* one iteration of the loop, on what get_artist_search_results returned;
\* st holds the locals best_match, highest_ratio and match_result, brk says
\* whether the iteration ended in `break`
ArtistIteration(st, artist_name, entries) ==
    IF ~Truthy(entries)
    THEN [best_match |-> st.best_match, highest_ratio |-> st.highest_ratio,
          last_match |-> st.last_match, brk |-> FALSE]
    ELSE With(find_best_match(artist_name,
                              [k \in 1..Len(entries.val) |-> entries.val[k].name],
                              Frac(3, 10)),
              LAMBDA mr :
                 LET better == mr.found /\ FracGt(mr.ratio, st.highest_ratio)
                     highest == IF better THEN mr.ratio ELSE st.highest_ratio
                 IN  [best_match |-> IF better
                                     THEN [some |-> TRUE,
                                           val |-> EntryMapping(entries.val, mr.match)]
                                     ELSE st.best_match,
                      highest_ratio |-> highest,
                      last_match |-> mr,
                      brk |-> ArtistConfident(highest)])

-----------------------------------------------------------------------------
(* get_lyrics_by_title_search(filename, file_path)                         *)

\* (0.3 * title_ratio) + (0.7 * artist_ratio), as an exact fraction.  The
\* float sum can differ from it in the last bit: that never reorders two
\* scores that differ as fractions (it can order two that are equal), and
\* for strings of up to 6 characters its comparison with 0.3 agrees with
\* the fraction's.
Combined(title_ratio, artist_ratio) ==
    Frac(3 * title_ratio[1] * artist_ratio[2] + 7 * artist_ratio[1] * title_ratio[2],
         10 * title_ratio[2] * artist_ratio[2])

\* combined_ratio of one entry (song_title, song_url, song_artist)
CombinedOf(file_title, file_artist, entry) ==
    Combined(Ratio(normalize_text(file_title), normalize_text(entry.name)),
             Ratio(normalize_text(file_artist), normalize_text(entry.aux)))

\* `if highest_ratio >= 0.3: break` with > in place of >=
TitleConfidentStrict(highest) == FracGt(highest, Frac(3, 10))

\* `if highest_ratio >= 0.3: break`
TitleConfident(highest) == FracGe(highest, Frac(3, 10))

RECURSIVE TitleScan(_, _, _, _, _)
\* `for song_title, song_url, song_artist in entries`, from entry k on
TitleScan(st, file_title, file_artist, entries, k) ==
    IF k > Len(entries)
    THEN st
    ELSE With(With(CombinedOf(file_title, file_artist, entries[k]),
                   LAMBDA combined_ratio :
                      IF FracGt(combined_ratio, st.highest_ratio)
                      THEN [best_match |-> [some |-> TRUE, val |-> entries[k]],
                            highest_ratio |-> combined_ratio]
                      ELSE st),
              LAMBDA st1 : TitleScan(st1, file_title, file_artist, entries, k + 1))

\* one iteration of the loop, on what get_title_search_results returned
TitleIteration(st, file_title, file_artist, entries) ==
    IF ~Truthy(entries)
    THEN [best_match |-> st.best_match, highest_ratio |-> st.highest_ratio,
          brk |-> FALSE]
    ELSE With(TitleScan(st, file_title, file_artist, entries.val, 1),
              LAMBDA st1 :
                 [best_match |-> st1.best_match,
                  highest_ratio |-> st1.highest_ratio,
                  brk |-> TitleConfident(st1.highest_ratio)])

\* the code after the loop: the threshold check, fetch_lyrics and
\* write_lyrics_to_file
TitleAfterLoop(best, highest, lyrics_http, ext, io_fails) ==
    IF ~best.some \/ FracLt(highest, Frac(3, 10))
    THEN [raised |-> FALSE, kind |-> "no_confident", tagged |-> FALSE]
    ELSE LET lyrics == fetch_lyrics(lyrics_http)
         IN  IF lyrics.raised
             THEN [raised |-> TRUE, kind |-> "none", tagged |-> FALSE]
             ELSE IF lyrics.value = ""
             THEN [raised |-> FALSE, kind |-> "no_lyrics", tagged |-> FALSE]
             ELSE [raised |-> FALSE, kind |-> "success",
                   tagged |-> write_lyrics_to_file(ext, io_fails).tagged]

-----------------------------------------------------------------------------
(* SpecResolve: one call of search_artist_url or of                        *)
(* get_lyrics_by_title_search, one loop iteration a step, against a        *)
(* catalogue search that answers each term with an error, a malformed page *)
(* or any page of at most MaxEntries rows.                                 *)

\* raw artist labels: "A", "A b", "<U+591C>A" and "b b b A"
ArtistLabels ==
    {<<"A">>, <<"A", " ", "b">>, <<"U+591C", "A">>,
     <<"b", " ", "b", " ", "b", " ", "A">>}
\* the artist rows of the catalogue: (artist_name, artist_url, song_count);
\* two artists share the name "b"
ArtistRows ==
    {[name |-> <<"A", " ", "b">>, url |-> "artist/1", aux |-> <<"3">>],
     [name |-> <<"b">>, url |-> "artist/2", aux |-> <<"3">>],
     [name |-> <<"b">>, url |-> "artist/3", aux |-> <<"3">>]}

\* raw title tags: "A", "a", "<U+591C>A", "A b" and "<U+266A>"
TitleLabels ==
    {<<"A">>, <<"a">>, <<"U+591C", "A">>, <<"A", " ", "b">>, <<"U+266A">>}
\* raw artist tags of the file: none ("") and "b"
ArtistTags == {<<>>, <<"b">>}
\* the song rows of the catalogue: (song_title, song_url, song_artist)
SongRows ==
    {[name |-> <<"a">>, url |-> "song/1", aux |-> <<"b">>],
     [name |-> <<"a">>, url |-> "song/2", aux |-> <<"a">>],
     [name |-> <<"U+591C", "a">>, url |-> "song/3", aux |-> <<"a">>]}

\* what one catalogue search can meet
HttpOutcomes(rows) ==
    {HttpError, HttpMalformed} \cup {HttpPage(r) : r \in SeqsUpTo(rows, MaxEntries)}
\* what the request of fetch_lyrics can meet
LyricsOutcomes == {"error", "no_lyrics", "lyrics"}

ResolveInit ==
    /\ \/ flow = "artist" /\ title = None /\ artist \in ArtistLabels
       \/ /\ flow = "title"
          /\ title \in {None} \cup {Some(l) : l \in TitleLabels}
          /\ artist \in ArtistTags
    /\ search_terms = <<>>
    /\ term_i = 1
    /\ best_match = NoBest
    /\ highest_ratio = Frac(0, 1)
    /\ last_match = NoMatch
    /\ res_pc = "start"
    /\ result = NoResult
    /\ queries = <<>>
    /\ outcomes = <<>>
    /\ seen = {}
    /\ confident_at = 0
    /\ confident_entry = <<>>
    /\ MatchIdle
    /\ TermsIdle
    /\ BatchIdle
    /\ SimIdle

Rows(http) == {http.rows[k] : k \in 1..Len(http.rows)}

\* search_artist_url up to its loop
ArtistStart ==
    /\ flow = "artist" /\ res_pc = "start"
    /\ search_terms' = extract_search_terms(artist, DefaultMaxTerms)
    /\ res_pc' = NextTerm(0, Len(search_terms'))
    /\ UNCHANGED <<flow, title, artist, term_i, best_match, highest_ratio,
                   last_match, result, queries, outcomes, seen, confident_at,
                   confident_entry, matchVars, termsVars, batchVars, simVars>>

\* one iteration of the loop of search_artist_url
ArtistQuery ==
    /\ flow = "artist" /\ res_pc = "loop"
    /\ \E http \in HttpOutcomes(ArtistRows) :
      \E entries \in {get_artist_search_results(http)} :
      \E it \in {ArtistIteration([best_match |-> best_match,
                                  highest_ratio |-> highest_ratio,
                                  last_match |-> last_match],
                                 artist, entries.value)} :
        LET confident == /\ ~entries.raised
                         /\ Truthy(entries.value)
                         /\ it.last_match.found
                         /\ FracGe(it.last_match.ratio, Frac(3, 10))
        IN  /\ queries' = Append(queries, search_terms[term_i])
            /\ outcomes' = Append(outcomes, http.kind)
            /\ seen' = seen \cup Rows(http)
            /\ IF confident /\ confident_at = 0
               THEN /\ confident_at' = Len(queries')
                    /\ confident_entry' = it.last_match.match
               ELSE UNCHANGED <<confident_at, confident_entry>>
            /\ IF entries.raised
               THEN /\ res_pc' = "raised"
                    /\ UNCHANGED <<term_i, best_match, highest_ratio, last_match>>
               ELSE /\ best_match' = it.best_match
                    /\ highest_ratio' = it.highest_ratio
                    /\ last_match' = it.last_match
                    /\ term_i' = IF it.brk THEN term_i ELSE term_i + 1
                    /\ res_pc' = IF it.brk THEN "after_loop"
                                 ELSE NextTerm(term_i, Len(search_terms))
    /\ UNCHANGED <<flow, title, artist, search_terms, result, matchVars, termsVars, batchVars, simVars>>

\* `if best_match: return ...` and `return None`
ArtistReturn ==
    /\ flow = "artist" /\ res_pc = "after_loop"
    /\ result' = IF best_match.some
                 THEN [kind |-> "artist", entry |-> best_match.val, tagged |-> FALSE]
                 ELSE NoResult
    /\ res_pc' = "returned"
    /\ UNCHANGED <<flow, title, artist, search_terms, term_i, best_match,
                   highest_ratio, last_match, queries, outcomes, seen,
                   confident_at, confident_entry, matchVars, termsVars, batchVars, simVars>>

\* get_lyrics_by_title_search up to its loop: None for a file without a
\* title tag
TitleStart ==
    /\ flow = "title" /\ res_pc = "start"
    /\ IF ~title.some
       THEN /\ res_pc' = "returned"
            /\ result' = NoResult
            /\ UNCHANGED search_terms
       ELSE /\ search_terms' = extract_search_terms(title.val, DefaultMaxTerms)
            /\ res_pc' = NextTerm(0, Len(search_terms'))
            /\ UNCHANGED result
    /\ UNCHANGED <<flow, title, artist, term_i, best_match, highest_ratio,
                   last_match, queries, outcomes, seen, confident_at,
                   confident_entry, matchVars, termsVars, batchVars, simVars>>

\* one iteration of the loop of get_lyrics_by_title_search
TitleQuery ==
    /\ flow = "title" /\ res_pc = "loop"
    /\ \E http \in HttpOutcomes(SongRows) :
      \E entries \in {get_title_search_results(http)} :
      \E it \in {TitleIteration([best_match |-> best_match,
                                 highest_ratio |-> highest_ratio],
                                title.val, artist, entries.value)} :
        LET confident == \E e \in Rows(http) :
                            FracGe(CombinedOf(title.val, artist, e), Frac(3, 10))
        IN  /\ queries' = Append(queries, search_terms[term_i])
            /\ outcomes' = Append(outcomes, http.kind)
            /\ seen' = seen \cup Rows(http)
            /\ confident_at' = IF confident /\ confident_at = 0
                               THEN Len(queries') ELSE confident_at
            /\ IF entries.raised
               THEN /\ res_pc' = "raised"
                    /\ UNCHANGED <<term_i, best_match, highest_ratio>>
               ELSE /\ best_match' = it.best_match
                    /\ highest_ratio' = it.highest_ratio
                    /\ term_i' = IF it.brk THEN term_i ELSE term_i + 1
                    /\ res_pc' = IF it.brk THEN "after_loop"
                                 ELSE NextTerm(term_i, Len(search_terms))
    /\ UNCHANGED <<flow, title, artist, search_terms, last_match, result,
                   confident_entry, matchVars, termsVars, batchVars, simVars>>

\* the rest of get_lyrics_by_title_search, for a file of any audio extension
TitleFinish ==
    /\ flow = "title" /\ res_pc = "after_loop"
    /\ \E lyrics_http \in LyricsOutcomes, ext \in AudioExtensions, io_fails \in BOOLEAN :
        \E r \in {TitleAfterLoop(best_match, highest_ratio, lyrics_http, ext, io_fails)} :
            IF r.raised
            THEN res_pc' = "raised" /\ UNCHANGED result
            ELSE /\ res_pc' = "returned"
                 /\ result' = [kind |-> r.kind,
                               entry |-> IF r.kind = "no_confident"
                                         THEN NoEntry ELSE best_match.val,
                               tagged |-> r.tagged]
    /\ UNCHANGED <<flow, title, artist, search_terms, term_i, best_match,
                   highest_ratio, last_match, queries, outcomes, seen,
                   confident_at, confident_entry, matchVars, termsVars, batchVars, simVars>>

ResolveNext ==
    \/ ArtistStart
    \/ ArtistQuery
    \/ ArtistReturn
    \/ TitleStart
    \/ TitleQuery
    \/ TitleFinish

SpecResolve == ResolveInit /\ [][ResolveNext]_vars

\* the queries sent so far are the first terms of search_terms, in order
QueriesInOrder ==
    /\ Len(queries) <= Len(search_terms)
    /\ queries = SubSeq(search_terms, 1, Len(queries))

(* C4: search_artist_url queries the terms in the order of                 *)
(* extract_search_terms; after the first term whose find_best_match result *)
(* (threshold 0.3) scores >= 0.3 no later term is queried, and the artist  *)
(* returned is the one matched on that term.                               *)
C4_FirstConfidentTermEndsArtistSearch ==
    flow = "artist" =>
        /\ QueriesInOrder
        /\ confident_at # 0 =>
              /\ Len(queries) = confident_at
              /\ res_pc \in {"after_loop", "returned"}
              /\ res_pc = "returned" =>
                    /\ result.kind = "artist"
                    /\ result.entry.name = confident_entry

\* an artist was returned on a term that is neither the first nor the last,
\* with a score below 1.0
C4_Witness ==
    /\ flow = "artist" /\ res_pc = "returned" /\ result.kind = "artist"
    /\ confident_at > 1
    /\ confident_at < Len(search_terms)
    /\ FracLt(highest_ratio, Frac(1, 1))

\* the entries seen whose combined score reaches 0.3
ReachingCombined ==
    {e \in seen : FracGe(CombinedOf(title.val, artist, e), Frac(3, 10))}

(* C5: get_lyrics_by_title_search tracks the best combined score over all  *)
(* entries of all terms queried so far; no term is queried once it is      *)
(* >= 0.3 (the boundary included); the entry resolved is the one achieving *)
(* it; and the call fails with the below-threshold reason exactly when no  *)
(* entry of any queried term reaches 0.3.                                  *)
C5_TitleSearchStopsAtCombinedThreshold ==
    (flow = "title" /\ title.some) =>
        /\ \A e \in seen : FracGe(highest_ratio, CombinedOf(title.val, artist, e))
        /\ IF best_match.some
           THEN /\ best_match.val \in seen
                /\ highest_ratio = CombinedOf(title.val, artist, best_match.val)
           ELSE highest_ratio = Frac(0, 1)
        /\ res_pc = "loop" => ReachingCombined = {}
        /\ confident_at # 0 => Len(queries) = confident_at
        /\ (res_pc = "returned" /\ result.kind \in {"success", "no_lyrics"}) =>
              /\ result.entry = best_match.val
              /\ result.entry \in ReachingCombined
        /\ res_pc = "returned" =>
              (result.kind = "no_confident" <=> ReachingCombined = {})

\* the title search succeeded on a combined score of exactly 0.3, reached on
\* a term that is not the last
C5_Witness ==
    /\ flow = "title" /\ res_pc = "returned" /\ result.kind = "success"
    /\ FracEq(highest_ratio, Frac(3, 10))
    /\ Len(queries) < Len(search_terms)

(* C6 as claimed: in get_lyrics_by_title_search, when the query of the     *)
(* first term fails with a transport error and the title has no kanji run, *)
(* the resolution fails at once and no second query is sent; when it has   *)
(* one, the only follow-up is one query of the longest run.                *)
C6_FirstTermErrorEndsTitleSearch ==
    (flow = "title" /\ Len(outcomes) >= 1 /\ outcomes[1] = "error") =>
        LET runs == SortByLenDesc(KanjiRuns(normalize_text(title.val), <<>>))
        IN  IF runs = <<>>
            THEN Len(queries) = 1 /\ res_pc # "loop"
            ELSE /\ Len(queries) <= 2
                 /\ Len(queries) = 2 => queries[2] = runs[1]

(* C6 as amended: a transport error on the first term of                   *)
(* get_lyrics_by_title_search is handled like one on any other term: the   *)
(* term counts as having no entries and the next term of the sequence, if  *)
(* any, is queried, whatever the script of the title; the resolution ends  *)
(* after that first query only when the sequence has no second term.       *)
C6_FirstTermErrorTriesNextTerm ==
    (flow = "title" /\ Len(outcomes) >= 1 /\ outcomes[1] = "error") =>
        /\ QueriesInOrder
        /\ Len(queries) = 1 =>
              /\ best_match = NoBest
              /\ highest_ratio = Frac(0, 1)
              /\ IF Len(search_terms) > 1
                 THEN res_pc = "loop" /\ term_i = 2
                 ELSE res_pc \in {"after_loop", "returned"}

\* a title without kanji whose first query failed was resolved by a later term
C6_Witness ==
    /\ flow = "title" /\ res_pc = "returned" /\ result.kind = "success"
    /\ outcomes[1] = "error"
    /\ Len(queries) >= 2
    /\ KanjiRuns(normalize_text(title.val), <<>>) = <<>>

(* C7: a transport error of the catalogue search for one term never        *)
(* propagates out of the resolution and never ends it: the iteration does  *)
(* what it does on a page without rows, the best match so far is left      *)
(* unchanged, and the next term, if any, is queried.  (Stated for every    *)
(* term of both resolutions, the first term of the title search included.) *)
C7_TransportErrorIsNoEntries ==
    /\ (flow = "artist" /\ res_pc = "loop") =>
          LET st == [best_match |-> best_match, highest_ratio |-> highest_ratio,
                     last_match |-> last_match]
              err == get_artist_search_results(HttpError)
              empty == get_artist_search_results(HttpPage(<<>>))
              it == ArtistIteration(st, artist, err.value)
          IN  /\ ~err.raised
              /\ it = ArtistIteration(st, artist, empty.value)
              /\ it.best_match = best_match
              /\ it.highest_ratio = highest_ratio
              /\ ~it.brk
    /\ (flow = "title" /\ res_pc = "loop") =>
          LET st == [best_match |-> best_match, highest_ratio |-> highest_ratio]
              err == get_title_search_results(HttpError)
              empty == get_title_search_results(HttpPage(<<>>))
              it == TitleIteration(st, title.val, artist, err.value)
          IN  /\ ~err.raised
              /\ it = TitleIteration(st, title.val, artist, empty.value)
              /\ it.best_match = best_match
              /\ it.highest_ratio = highest_ratio
              /\ ~it.brk
    /\ (outcomes # <<>> /\ outcomes[Len(outcomes)] = "error") =>
          /\ res_pc # "raised"
          /\ Len(queries) < Len(search_terms) =>
                res_pc = "loop" /\ term_i = Len(queries) + 1

\* a term's query failed and a later term resolved the label
C7_Witness ==
    /\ res_pc = "returned"
    /\ result.kind \in {"artist", "success"}
    /\ \E k \in 1..Len(outcomes) : outcomes[k] = "error" /\ k > 1

(* C13 as claimed: search_artist_url resolves an artist only with          *)
(* confidence >= 0.3: whenever it returns an artist entry, the similarity  *)
(* between the raw artist label and the returned display label is >= 0.3,  *)
(* and when every queried term's best result scores below 0.3 it returns   *)
(* None.                                                                   *)
C13_ArtistResolvedOnlyWithConfidence ==
    (flow = "artist" /\ res_pc = "returned") =>
        /\ result.kind = "artist" =>
              FracGe(Ratio(artist, result.entry.name), Frac(3, 10))
        /\ confident_at = 0 => result.kind = "none"

(* C13 as the code has it: search_artist_url returns an artist entry with  *)
(* similarity >= 0.3 to the raw label when some queried term's result      *)
(* reached 0.3; when none did, it has queried every term and returns the   *)
(* best-scoring substring fallback of find_best_match, a non-empty display *)
(* label that is a literal substring of the raw label and scores below     *)
(* 0.3; it returns None only when no page it received holds a label that   *)
(* scores >= 0.3 or is a non-empty substring of the raw label.             *)
C13_ArtistResolvedByConfidenceOrSubstring ==
    (flow = "artist" /\ res_pc = "returned") =>
        /\ result.kind \in {"artist", "none"}
        /\ result.kind = "artist" =>
              LET name == result.entry.name
                  score == Ratio(artist, name)
              IN  /\ result.entry \in seen
                  /\ FracEq(highest_ratio, score)
                  /\ IF confident_at # 0
                     THEN FracGe(score, Frac(3, 10))
                     ELSE /\ FracLt(score, Frac(3, 10))
                          /\ name # <<>>
                          /\ IsSubstring(name, artist)
                          /\ Len(queries) = Len(search_terms)
                          /\ \A e \in seen :
                                (e.name # <<>> /\ IsSubstring(e.name, artist))
                                   => FracGe(score, Ratio(artist, e.name))
        /\ result.kind = "none" =>
              /\ Len(queries) = Len(search_terms)
              /\ \A e \in seen :
                    /\ FracLt(Ratio(artist, e.name), Frac(3, 10))
                    /\ ~(e.name # <<>> /\ IsSubstring(e.name, artist))

\* an artist was returned whose label scores below 0.3, after every term was
\* queried and at least one term's page had no usable label
C13_Witness ==
    /\ flow = "artist" /\ res_pc = "returned" /\ result.kind = "artist"
    /\ confident_at = 0
    /\ FracLt(Ratio(artist, result.entry.name), Frac(3, 10))
    /\ Len(queries) > 1

-----------------------------------------------------------------------------
(* process_audio_files.  A file is the record of what mutagen reads from   *)
(* it and of its extension; its filename is its position in the sorted     *)
(* list self.audio_files.  What the catalogue answers while one file is    *)
(* processed is drawn per file: the outcome of search_artist_url (which    *)
(* returns None on transport errors, see SpecResolve), of                  *)
(* collect_song_entries, of match_song_title, of fetch_lyrics and of the   *)
(* tag write.  Catalogue pages are well-formed here.                       *)

\* the extensions get_audio_files accepts, as far as they matter: one with
\* a tag mapping in write_lyrics_to_file and one without
BatchExtensions == {".mp3", ".ogg"}

File(ext, opens, has_artist, has_title) ==
    [ext |-> ext, opens |-> opens, has_artist |-> has_artist,
     has_title |-> has_title]

\* the files of the directory: tagged files of both extensions, a file
\* without title, a file without artist and a file mutagen cannot open
FileKinds ==
    {File(".mp3", TRUE, TRUE, TRUE), File(".ogg", TRUE, TRUE, TRUE),
     File(".mp3", TRUE, TRUE, FALSE), File(".mp3", TRUE, FALSE, TRUE),
     File(".mp3", FALSE, FALSE, FALSE)}

\* collect_song_entries: a transport error of a catalogue page propagates
\* (raise_for_status), an artist page without songs ends the process
\* (sys.exit(1)), otherwise the non-empty mapping is returned
CollectOutcomes == {"error", "no_songs", "songs"}

collect_song_entries(http) ==
    IF http = "error" THEN [end |-> "exception", entries |-> "empty"]
    ELSE IF http = "no_songs" THEN [end |-> "exited", entries |-> "empty"]
    ELSE [end |-> "returned", entries |-> "collected"]

\* match_song_title: a title of the mapping or None; None when the mapping
\* is empty (find_best_match over no candidates)
match_song_title(entries, matches) == entries = "collected" /\ matches

\* what the catalogue answers while one file is processed in the first pass
FirstPassEnvs ==
    [search : {"none", "found"}, collect : CollectOutcomes,
     matches : BOOLEAN, lyrics : {"error", "no_lyrics", "lyrics"},
     io_fails : BOOLEAN]

Failure(reason, cond, entries) ==
    [end |-> "failed", reason |-> reason, cond |-> cond, entries |-> entries,
     wrote |-> FALSE, tagged |-> FALSE]

Abort(end, cond, entries) ==
    [end |-> end, reason |-> "", cond |-> cond, entries |-> entries,
     wrote |-> FALSE, tagged |-> FALSE]

\* the body of the first loop of process_audio_files from the title lookup on
FirstPassMatch(file, entries, env) ==
    IF ~file.has_title THEN Failure("No title found", "none", entries)
    ELSE IF ~match_song_title(entries, env.matches)
    THEN Failure("No matching song found",
                 IF entries = "empty" THEN "no_candidates" ELSE "below_threshold",
                 entries)
    ELSE LET lyrics == fetch_lyrics(env.lyrics)
         IN  IF lyrics.raised THEN Abort("exception", "transport_failure", entries)
             ELSE IF lyrics.value = ""
             THEN Failure("No lyrics found", "none", entries)
             ELSE LET w == write_lyrics_to_file(file.ext, env.io_fails)
                  IN  IF w.raised
                      THEN Failure("Error writing lyrics", "none", entries)
                      ELSE [end |-> "processed", reason |-> "",
                            cond |-> IF file.ext \in TaggedExtensions
                                     THEN "none" ELSE "unsupported_format",
                            entries |-> entries, wrote |-> TRUE,
                            tagged |-> w.tagged]

\* the body of the first loop of process_audio_files for one file
FirstPassFile(file, per_file, entries, env) ==
    IF ~file.opens THEN Failure("Could not open file", "none", entries)
    ELSE IF per_file
    THEN IF ~file.has_artist THEN Failure("No artist found", "none", entries)
         ELSE IF env.search = "none"
         THEN Failure("No artist found for artist", "no_candidates", entries)
         ELSE LET c == collect_song_entries(env.collect)
              IN  IF c.end = "exception"
                  THEN Abort("exception", "transport_failure", entries)
                  ELSE IF c.end = "exited"
                  THEN Abort("exited", "no_candidates", entries)
                  ELSE FirstPassMatch(file, c.entries, env)
    ELSE FirstPassMatch(file, entries, env)

\* what the loop of get_lyrics_by_title_search can leave in (best_match,
\* highest_ratio): nothing, an entry below the threshold, an entry at it
TitleLoopResults ==
    {[best |-> NoBest, highest |-> Frac(0, 1)],
     [best |-> [some |-> TRUE, val |-> CHOOSE r \in SongRows : r.url = "song/1"],
      highest |-> Frac(2, 10)],
     [best |-> [some |-> TRUE, val |-> CHOOSE r \in SongRows : r.url = "song/1"],
      highest |-> Frac(3, 10)]}

TitlePassEnvs ==
    [loop : TitleLoopResults, lyrics : {"error", "no_lyrics", "lyrics"},
     io_fails : BOOLEAN]

\* get_lyrics_by_title_search as process_audio_files sees it: None, a
\* (False, reason) or (True, "Success") pair, or an exception
get_lyrics_by_title_search(file, env) ==
    IF ~file.opens \/ ~file.has_title
    THEN [raised |-> FALSE, kind |-> "none", tagged |-> FALSE]
    ELSE LET r == TitleAfterLoop(env.loop.best, env.loop.highest, env.lyrics,
                                 file.ext, env.io_fails)
         IN  IF r.raised THEN [raised |-> TRUE, kind |-> "none", tagged |-> FALSE]
             ELSE r

TitleReason(kind) ==
    IF kind = "no_confident" THEN "No confident matches found"
    ELSE "No lyrics found"

\* the title pass appends every file again, a resolved one too
StillFailedKeepsAll(still, rec, kind) == Append(still, rec)

\* what the loop over failed_files does with the result for one record:
\* None keeps the record, (False, reason) replaces its reason, success drops it
StillFailedAfter(still, rec, kind) ==
    IF kind = "success" THEN still
    ELSE IF kind = "none" THEN Append(still, rec)
    ELSE Append(still, [file |-> rec.file, reason |-> TitleReason(kind)])

-----------------------------------------------------------------------------
(* SpecBatch: one run of process_audio_files over a directory of at most   *)
(* MaxFiles files, one file of a loop a step.                              *)

BatchInit ==
    /\ audio_files \in UNION {[1..n -> FileKinds] : n \in 1..MaxFiles}
    /\ per_file_search \in BOOLEAN
    /\ search_by_title_pass \in BOOLEAN
    /\ song_entries \in (IF per_file_search THEN {"empty"}
                         ELSE {"empty", "collected"})
    /\ batch_pc = "first_pass"
    /\ file_i = 1
    /\ failed_files = <<>>
    /\ still_failed = <<>>
    /\ met = [k \in 1..Len(audio_files) |-> "none"]
    /\ written = {}
    /\ tagged_files = {}
    /\ passed = {}
    /\ first_failed = {}
    /\ title_tried = <<>>
    /\ title_ok = {}
    /\ MatchIdle
    /\ TermsIdle
    /\ ResolveIdle
    /\ SimIdle

\* one iteration of the first loop
ProcessFile ==
    /\ batch_pc = "first_pass"
    /\ file_i <= Len(audio_files)
    /\ \E env \in FirstPassEnvs :
         \E r \in {FirstPassFile(audio_files[file_i], per_file_search,
                                 song_entries, env)} :
            /\ song_entries' = r.entries
            /\ met' = [met EXCEPT ![file_i] = r.cond]
            /\ written' = IF r.wrote THEN written \cup {file_i} ELSE written
            /\ tagged_files' = IF r.tagged THEN tagged_files \cup {file_i}
                               ELSE tagged_files
            /\ failed_files' = IF r.end = "failed"
                               THEN Append(failed_files,
                                           [file |-> file_i, reason |-> r.reason])
                               ELSE failed_files
            /\ batch_pc' = IF r.end \in {"exception", "exited"} THEN r.end
                           ELSE batch_pc
            /\ file_i' = IF r.end \in {"exception", "exited"} THEN file_i
                         ELSE file_i + 1
            /\ passed' = IF r.end \in {"exception", "exited"} THEN passed
                         ELSE passed \cup {file_i}
            /\ first_failed' = IF r.end = "failed"
                               THEN first_failed \cup {file_i}
                               ELSE first_failed
    /\ UNCHANGED <<audio_files, per_file_search, search_by_title_pass,
                   still_failed, title_tried, title_ok, matchVars, termsVars,
                   resolveVars, simVars>>

\* the first loop is over: the title pass starts, or the summary is printed
EndFirstPass ==
    /\ batch_pc = "first_pass"
    /\ file_i > Len(audio_files)
    /\ IF search_by_title_pass /\ failed_files # <<>>
       THEN batch_pc' = "title_pass" /\ file_i' = 1
       ELSE batch_pc' = "summary" /\ file_i' = file_i
    /\ UNCHANGED <<audio_files, per_file_search, search_by_title_pass,
                   song_entries, failed_files, still_failed, met, written,
                   tagged_files, passed, first_failed, title_tried, title_ok,
                   matchVars, termsVars, resolveVars, simVars>>

\* one iteration of the loop over failed_files
TitlePassFile ==
    /\ batch_pc = "title_pass"
    /\ file_i <= Len(failed_files)
    /\ \E env \in TitlePassEnvs :
         \E r \in {get_lyrics_by_title_search(
                       audio_files[failed_files[file_i].file], env)} :
            /\ batch_pc' = IF r.raised THEN "exception" ELSE batch_pc
            /\ file_i' = IF r.raised THEN file_i ELSE file_i + 1
            /\ still_failed' = IF r.raised THEN still_failed
                               ELSE StillFailedAfter(still_failed,
                                                     failed_files[file_i], r.kind)
            /\ title_tried' = Append(title_tried, failed_files[file_i].file)
            /\ title_ok' = IF r.kind = "success"
                           THEN title_ok \cup {failed_files[file_i].file}
                           ELSE title_ok
            /\ written' = IF r.kind = "success"
                          THEN written \cup {failed_files[file_i].file}
                          ELSE written
            /\ tagged_files' = IF r.tagged
                               THEN tagged_files \cup {failed_files[file_i].file}
                               ELSE tagged_files
    /\ UNCHANGED <<audio_files, per_file_search, search_by_title_pass,
                   song_entries, failed_files, met, passed, first_failed,
                   matchVars, termsVars, resolveVars, simVars>>

\* the loop over failed_files is over: failed_files = still_failed, summary
EndTitlePass ==
    /\ batch_pc = "title_pass"
    /\ file_i > Len(failed_files)
    /\ failed_files' = still_failed
    /\ batch_pc' = "summary"
    /\ UNCHANGED <<audio_files, per_file_search, search_by_title_pass,
                   song_entries, file_i, still_failed, met, written,
                   tagged_files, passed, first_failed, title_tried, title_ok,
                   matchVars, termsVars, resolveVars, simVars>>

BatchNext == ProcessFile \/ EndFirstPass \/ TitlePassFile \/ EndTitlePass

SpecBatch == BatchInit /\ [][BatchNext]_vars

\* the files with a record in failed_files
FailedSet == {failed_files[k].file : k \in 1..Len(failed_files)}

(* C8: process_audio_files reaches its summary for every batch: the run    *)
(* never ends in an exception or a process exit, and every file the first  *)
(* loop has passed on which a no-candidates, below-threshold,              *)
(* transport-failure or unsupported-format condition was met has a failure *)
(* record with a reason, the loop going on to the remaining files.         *)
C8_ConditionsBecomeFailureRecords ==
    /\ batch_pc \notin {"exception", "exited"}
    /\ batch_pc = "first_pass" =>
          \A k \in 1..Len(audio_files) :
             met[k] # "none" =>
                /\ k < file_i
                /\ \E j \in 1..Len(failed_files) :
                      failed_files[j].file = k /\ failed_files[j].reason # ""

(* C9: at the summary, a file without tag mapping (.ogg) for which lyrics  *)
(* were resolved and handed to write_lyrics_to_file is in the final        *)
(* failure list, so it is not counted as successfully processed.           *)
C9_UnsupportedFormatEndsInFailureList ==
    batch_pc = "summary" =>
        \A k \in written :
            audio_files[k].ext \notin TaggedExtensions => k \in FailedSet

-----------------------------------------------------------------------------
(* SpecSimilarity: difflib.SequenceMatcher(None, a, b).ratio(), the score  *)
(* of find_best_match and of get_lyrics_by_title_search, on every pair of  *)
(* strings of the bounds, in both argument orders.                         *)

SimAlphabet == {"a", "b"}
SimStrings == SeqsUpTo(SimAlphabet, MaxSimLen)

SimInit ==
    /\ sim_a \in SimStrings
    /\ sim_b \in SimStrings
    /\ sim_pc = "call"
    /\ sim_ab = Frac(0, 1)
    /\ sim_ba = Frac(0, 1)
    /\ MatchIdle
    /\ TermsIdle
    /\ ResolveIdle
    /\ BatchIdle

SimilarityCall ==
    /\ sim_pc = "call"
    /\ sim_ab' = Ratio(sim_a, sim_b)
    /\ sim_ba' = Ratio(sim_b, sim_a)
    /\ sim_pc' = "returned"
    /\ UNCHANGED <<sim_a, sim_b, matchVars, termsVars, resolveVars, batchVars>>

SimNext == SimilarityCall

SpecSimilarity == SimInit /\ [][SimNext]_vars

(* C12: the similarity score is symmetric: for all strings a and b the     *)
(* score of (a, b) equals the score of (b, a).                             *)
C12_SimilarityIsSymmetric ==
    sim_pc = "returned" => FracEq(sim_ab, sim_ba)

(* C14: when process_audio_files reaches the summary, the final failure    *)
(* list holds at most one record per file, and a file is in it exactly     *)
(* when the first pass gave it a failure record and the title-search       *)
(* fallback was disabled or did not return success for it; the fallback is *)
(* called only on files the first pass failed, once each, and only after   *)
(* the first pass over all files is complete.                              *)
C14_FinalFailureList ==
    /\ first_failed \subseteq passed
    /\ title_tried # <<>> =>
          /\ search_by_title_pass
          /\ passed = 1..Len(audio_files)
    /\ \A i \in 1..Len(title_tried) :
          /\ title_tried[i] \in first_failed
          /\ \A j \in 1..Len(title_tried) : i # j => title_tried[i] # title_tried[j]
    /\ title_ok \subseteq {title_tried[i] : i \in 1..Len(title_tried)}
    /\ batch_pc = "summary" =>
          /\ passed = 1..Len(audio_files)
          /\ \A i, j \in 1..Len(failed_files) :
                i # j => failed_files[i].file # failed_files[j].file
          /\ search_by_title_pass =>
                {title_tried[i] : i \in 1..Len(title_tried)} = first_failed
          /\ FailedSet = {k \in first_failed :
                            ~search_by_title_pass \/ k \notin title_ok}

\* a summary after a title pass that resolved one failed file and not another
C14_Witness ==
    /\ batch_pc = "summary"
    /\ search_by_title_pass
    /\ title_ok # {}
    /\ FailedSet # {}
    /\ Len(title_tried) = 2

=============================================================================
